---- MODULE Spec2Model ----
(***************************************************************************)
(* Model of the documentation browser in src/webapp: configuration         *)
(* (config.py), document discovery, title extraction, tree building and    *)
(* search (document_index.py) and application startup and lookup (app.py). *)
(*                                                                         *)
(* A Python str is a sequence of one-character strings.  A pathlib.Path is *)
(* the sequence of its segments below "/", each segment a str.             *)
(***************************************************************************)
EXTENDS Integers, Sequences, FiniteSets, TLC

(***************************************************************************)
(* Bounds of the model.                                                    *)
(***************************************************************************)
\* longest file content enumerated for title extraction
MaxTitleLen == 5
\* longest content of the exhaustively enumerated document of a search
MaxContentLen == 3
\* most documents besides the enumerated one in an enumerated document list
MaxOthers == 1

(***************************************************************************)
(* str operations                                                          *)
(***************************************************************************)
\* code points of the characters the model uses (str comparison is by code point)
ord(c) ==
    CASE c = "\t" -> 9   [] c = "\n" -> 10  [] c = "\r" -> 13  [] c = " " -> 32
      [] c = "#" -> 35   [] c = "-" -> 45   [] c = "." -> 46   [] c = "/" -> 47
      [] c = "0" -> 48   [] c = "1" -> 49   [] c = "2" -> 50   [] c = "3" -> 51
      [] c = "4" -> 52   [] c = "5" -> 53   [] c = "6" -> 54   [] c = "7" -> 55
      [] c = "8" -> 56   [] c = "9" -> 57
      [] c = "A" -> 65   [] c = "B" -> 66   [] c = "D" -> 68   [] c = "M" -> 77
      [] c = "_" -> 95
      [] c = "a" -> 97   [] c = "b" -> 98   [] c = "c" -> 99   [] c = "d" -> 100
      [] c = "e" -> 101  [] c = "f" -> 102  [] c = "g" -> 103  [] c = "h" -> 104
      [] c = "i" -> 105  [] c = "k" -> 107  [] c = "l" -> 108  [] c = "m" -> 109
      [] c = "n" -> 110  [] c = "o" -> 111  [] c = "p" -> 112  [] c = "r" -> 114
      [] c = "s" -> 115  [] c = "t" -> 116  [] c = "u" -> 117  [] c = "v" -> 118
      [] c = "x" -> 120  [] c = "y" -> 121

\* str.lower() of one character
lower_char(c) ==
    CASE c = "A" -> "a" [] c = "B" -> "b" [] c = "D" -> "d" [] c = "M" -> "m"
      [] OTHER -> c

\* str.lower()
lower(s) == [i \in 1..Len(s) |-> lower_char(s[i])]

\* the characters str.strip() removes
isspace(c) == c \in {" ", "\t", "\n", "\r"}

RECURSIVE lstrip(_)
lstrip(s) == IF s # <<>> /\ isspace(Head(s)) THEN lstrip(Tail(s)) ELSE s

RECURSIVE rstrip(_)
rstrip(s) ==
    IF s # <<>> /\ isspace(s[Len(s)]) THEN rstrip(SubSeq(s, 1, Len(s) - 1)) ELSE s

\* str.strip()
strip(s) == rstrip(lstrip(s))

\* str.startswith(prefix)
startswith(s, prefix) ==
    /\ Len(prefix) <= Len(s)
    /\ SubSeq(s, 1, Len(prefix)) = prefix

\* s[n:]
drop(s, n) == SubSeq(s, n + 1, Len(s))

\* index of the first line boundary of s, 0 when there is none
RECURSIVE find_linebreak(_, _)
find_linebreak(s, i) ==
    IF i > Len(s) THEN 0
    ELSE IF s[i] \in {"\n", "\r"} THEN i
    ELSE find_linebreak(s, i + 1)

\* str.splitlines(): "\n", "\r" and "\r\n" end a line; no empty last line
RECURSIVE splitlines(_)
splitlines(s) ==
    IF s = <<>> THEN <<>>
    ELSE LET i == find_linebreak(s, 1) IN
         IF i = 0 THEN <<s>>
         ELSE LET w == IF s[i] = "\r" /\ i < Len(s) /\ s[i + 1] = "\n" THEN 2 ELSE 1
              IN  <<SubSeq(s, 1, i - 1)>> \o splitlines(drop(s, i + w - 1))

\* a < b for str (lexicographic by code point)
RECURSIVE str_lt(_, _)
str_lt(a, b) ==
    IF b = <<>> THEN FALSE
    ELSE IF a = <<>> THEN TRUE
    ELSE IF Head(a) = Head(b) THEN str_lt(Tail(a), Tail(b))
    ELSE ord(Head(a)) < ord(Head(b))

\* sep.join(parts)
RECURSIVE join(_, _)
join(sep, parts) ==
    IF parts = <<>> THEN <<>>
    ELSE IF Len(parts) = 1 THEN parts[1]
    ELSE parts[1] \o sep \o join(sep, Tail(parts))

\* index of the first "/" of s at or after i, 0 when there is none
RECURSIVE find_slash(_, _)
find_slash(s, i) ==
    IF i > Len(s) THEN 0 ELSE IF s[i] = "/" THEN i ELSE find_slash(s, i + 1)

\* str.split('/')
RECURSIVE split(_)
split(s) ==
    LET i == find_slash(s, 1) IN
    IF i = 0 THEN <<s>> ELSE <<SubSeq(s, 1, i - 1)>> \o split(drop(s, i))

\* index of the last "." of a file name, 0 when there is none
RECURSIVE rfind_dot(_, _)
rfind_dot(name, i) ==
    IF i = 0 THEN 0 ELSE IF name[i] = "." THEN i ELSE rfind_dot(name, i - 1)

\* PurePath.suffix: the last dot and what follows it, unless the dot is first or last
suffix(name) ==
    LET i == rfind_dot(name, Len(name)) IN
    IF 1 < i /\ i < Len(name) THEN drop(name, i - 1) ELSE <<>>

\* PurePath.stem: the name without its suffix
stem(name) ==
    LET i == rfind_dot(name, Len(name)) IN
    IF 1 < i /\ i < Len(name) THEN SubSeq(name, 1, i - 1) ELSE name

(***************************************************************************)
(* Title extraction                                                        *)
(***************************************************************************)
\* the loop of _extract_title over the remaining lines
RECURSIVE title_scan(_, _)
title_scan(lines, fallback) ==
    IF lines = <<>> THEN fallback
    ELSE LET stripped == strip(Head(lines)) IN
         IF startswith(stripped, <<"#", " ">>) THEN strip(drop(stripped, 2))
         ELSE IF stripped # <<>> THEN stripped
         ELSE title_scan(Tail(lines), fallback)

\* _extract_title(file_path, content); file_path is given by its last segment
_extract_title(file_name, content) ==
    title_scan(splitlines(content), stem(file_name))

(***************************************************************************)
(* Configuration (config.py)                                               *)
(***************************************************************************)
VARIABLES
    DOCS_ROOT,           \* config.DOCS_ROOT: the resolved root, a Path
    has_is_relative_to,  \* whether the interpreter has Path.is_relative_to (3.9+)
    fs,                  \* the filesystem: Path -> entry
    pc,                  \* "start", "walking", "serving" or "crashed"
    pending,             \* directories os.walk has still to yield
    docs,                \* discover_documents' list `docs`, then create_app's `documents`
    tree,                \* create_app's `tree`
    relpath_to_doc,      \* create_app's `relpath_to_doc`
    query,               \* the last search's query argument
    limit,               \* the last search's limit argument
    results,             \* the last search's result list
    viewed,              \* the last lookup: <<relpath, outcome>>
    file_name,           \* title extraction on its own: the file's name
    content,             \* title extraction on its own: the file's content
    title                \* title extraction on its own: <<>> or <<the title returned>>

vars == <<DOCS_ROOT, has_is_relative_to, fs, pc, pending, docs, tree,
          relpath_to_doc, query, limit, results, viewed, file_name, content, title>>

\* names used by the configuration
N_md == <<".", "m", "d">>
N_markdown == <<".", "m", "a", "r", "k", "d", "o", "w", "n">>
N_txt == <<".", "t", "x", "t">>
N_git == <<".", "g", "i", "t">>
N_venv == <<"v", "e", "n", "v">>
N_advance == <<"a", "d", "v", "a", "n", "c", "e">>
N_fonts == <<"f", "o", "n", "t", "s">>

INCLUDE_EXTENSIONS == {N_md, N_markdown, N_txt}

EXCLUDE_DIRS ==
    { N_git,
      <<".", "g", "i", "t", "h", "u", "b">>,
      <<"n", "o", "d", "e", "_", "m", "o", "d", "u", "l", "e", "s">>,
      <<"_", "_", "p", "y", "c", "a", "c", "h", "e", "_", "_">>,
      N_venv,
      <<".", "v", "e", "n", "v">>,
      <<".", "m", "y", "p", "y", "_", "c", "a", "c", "h", "e">>,
      <<".", "p", "y", "t", "e", "s", "t", "_", "c", "a", "c", "h", "e">>,
      <<".", "i", "d", "e", "a">>,
      <<".", "v", "s", "c", "o", "d", "e">>,
      <<".", "c", "u", "r", "s", "o", "r">> }

EXCLUDE_PREFIXES == { DOCS_ROOT \o <<N_advance, N_fonts>> }

\* str(path) of an absolute Path
path_str(path) == <<"/">> \o join(<<"/">>, path)

\* PurePath.is_relative_to(other): other's segments are a prefix of path's
is_relative_to(path, other) ==
    /\ Len(other) <= Len(path)
    /\ SubSeq(path, 1, Len(other)) = other

\* the entry of the filesystem at path
entry(path) == IF path \in DOMAIN fs THEN fs[path] ELSE [kind |-> "none"]

\* Path.resolve(): a symbolic link is replaced by its target
resolve_not(path) == path

resolve(path) == IF entry(path).kind = "link" THEN entry(path).target ELSE path

\* the file the operating system reaches at path, following a symbolic link
os_follow(path) == IF entry(path).kind = "link" THEN entry(path).target ELSE path

\* config.is_under_docs_root(path)
is_under_docs_root(path) ==
    IF has_is_relative_to
    THEN is_relative_to(resolve(path), DOCS_ROOT)
    ELSE startswith(path_str(resolve(path)), path_str(DOCS_ROOT))

(***************************************************************************)
(* Documents                                                               *)
(***************************************************************************)
\* absolute_path.relative_to(root).as_posix(), for a path under root
relative_posix(path, root) == join(<<"/">>, SubSeq(path, Len(root) + 1, Len(path)))

\* the Document built at lines 86-96 from a resolved path and its text
Document(absolute_path, text) ==
    [ absolute_path |-> absolute_path,
      relative_path |-> relative_posix(absolute_path, DOCS_ROOT),
      title         |-> _extract_title(absolute_path[Len(absolute_path)], text),
      content       |-> text,
      lower_content |-> lower(text) ]

\* the place list.sort gives x in the sorted list s: after every element that is
\* not greater (the sort is stable)
RECURSIVE insert_by_path(_, _)
insert_by_path(x, s) ==
    IF s = <<>> THEN <<x>>
    ELSE IF str_lt(x.relative_path, Head(s).relative_path) THEN <<x>> \o s
    ELSE <<Head(s)>> \o insert_by_path(x, Tail(s))

\* docs.sort(key=lambda d: d.relative_path)
RECURSIVE sort_docs(_)
sort_docs(s) ==
    IF s = <<>> THEN <<>>
    ELSE insert_by_path(s[Len(s)], sort_docs(SubSeq(s, 1, Len(s) - 1)))

(***************************************************************************)
(* Tree building.  The nested dict is a function from the sequence of      *)
(* child names leading to a node to that node; has_children says whether   *)
(* the node's dict has the key "children".                                 *)
(***************************************************************************)
\* the "type" given to a node created for segment i of n
node_type_never_last(i, n) == IF i = n + 1 THEN "file" ELSE "dir"

node_type(i, n) == IF i = n THEN "file" ELSE "dir"

\* the inner loop of build_tree from segment i on, the cursor being parts[1..i-1]
RECURSIVE tree_add_parts(_, _, _)
tree_add_parts(t, parts, i) ==
    IF i > Len(parts) THEN t
    ELSE LET cursor == SubSeq(parts, 1, i - 1)
             child  == SubSeq(parts, 1, i)
             t1 == [t EXCEPT ![cursor].has_children = TRUE]
             t2 == IF child \in DOMAIN t1 THEN t1
                   ELSE [k \in DOMAIN t1 \cup {child} |->
                           IF k = child
                           THEN [ name |-> parts[i],
                                  path |-> join(<<"/">>, child),
                                  type |-> node_type(i, Len(parts)),
                                  has_children |-> FALSE ]
                           ELSE t1[k]]
         IN  tree_add_parts(t2, parts, i + 1)

\* the outer loop of build_tree over the documents from index i on
RECURSIVE tree_add_docs(_, _, _)
tree_add_docs(t, documents, i) ==
    IF i > Len(documents) THEN t
    ELSE tree_add_docs(tree_add_parts(t, split(documents[i].relative_path), 1),
                       documents, i + 1)

\* build_tree(documents)
build_tree(documents) ==
    tree_add_docs([k \in {<<>>} |->
                      [name |-> <<>>, path |-> <<>>, type |-> "dir", has_children |-> TRUE]],
                  documents, 1)

\* {d.relative_path: d for d in documents}: a later document replaces an earlier one
RECURSIVE relpath_map(_, _)
relpath_map(documents, i) ==
    IF i = 0 THEN <<>>
    ELSE LET m == relpath_map(documents, i - 1)
             k == documents[i].relative_path
         IN  [x \in DOMAIN m \cup {k} |-> IF x = k THEN documents[i] ELSE m[x]]

(***************************************************************************)
(* Search                                                                  *)
(***************************************************************************)
\* limit of SimpleSearchIndex.search when none is given
DefaultLimit == 50
\* limit the /search route passes
AppLimit == 100
\* context of _make_excerpt
ExcerptContext == 120
\* stands for the one character U+2026 of _make_excerpt
ELLIPSIS == "ELLIPSIS"

\* whether re.escape(q) with re.IGNORECASE matches text at index i (1-based)
match_at(q, text, i) ==
    /\ i + Len(q) - 1 <= Len(text)
    /\ \A k \in 1..Len(q) : lower_char(text[i + k - 1]) = lower_char(q[k])

\* index of the first match at or after i, 0 when there is none: pattern.search
RECURSIVE find_match(_, _, _)
find_match(q, text, i) ==
    IF i + Len(q) - 1 > Len(text) THEN 0
    ELSE IF match_at(q, text, i) THEN i
    ELSE find_match(q, text, i + 1)

\* the scan of re.findall from index i: a match is consumed before the next
RECURSIVE findall_count_overlapping(_, _, _)
findall_count_overlapping(q, text, i) ==
    LET m == find_match(q, text, i) IN
    IF m = 0 THEN 0 ELSE 1 + findall_count_overlapping(q, text, m + 1)

RECURSIVE findall_count(_, _, _)
findall_count(q, text, i) ==
    LET m == find_match(q, text, i) IN
    IF m = 0 THEN 0 ELSE 1 + findall_count(q, text, m + Len(q))

\* title_hits * 5 + content_hits
hits_score(title_hits, content_hits) == title_hits * 5 + content_hits

\* text[a:b] for 0 <= a <= b <= len(text)
slice(text, a, b) == SubSeq(text, a + 1, b)

\* str.replace("\n", " ")
replace_newlines(s) == [i \in 1..Len(s) |-> IF s[i] = "\n" THEN " " ELSE s[i]]

Max(a, b) == IF a >= b THEN a ELSE b
Min(a, b) == IF a <= b THEN a ELSE b

\* _make_excerpt(text, pattern)
_make_excerpt(text, q) ==
    LET m == find_match(q, text, 1) IN
    IF m = 0 THEN slice(text, 0, Min(2 * ExcerptContext, Len(text)))
    ELSE LET start == Max((m - 1) - ExcerptContext, 0)
             end   == Min((m - 1 + Len(q)) + ExcerptContext, Len(text))
             prefix == IF start > 0 THEN <<ELLIPSIS>> ELSE <<>>
             sfx    == IF end < Len(text) THEN <<ELLIPSIS>> ELSE <<>>
         IN  prefix \o replace_newlines(slice(text, start, end)) \o sfx

\* the loop body of search for one document: <<>> or <<its SearchResult>>
search_one(doc, q) ==
    LET score == hits_score(findall_count(q, doc.title, 1), findall_count(q, doc.content, 1))
    IN  IF score = 0 THEN <<>>
        ELSE << [document |-> doc, score |-> score, excerpt |-> _make_excerpt(doc.content, q)] >>

RECURSIVE search_loop(_, _)
search_loop(documents, q) ==
    IF documents = <<>> THEN <<>>
    ELSE search_one(Head(documents), q) \o search_loop(Tail(documents), q)

\* whether the sort key (-score, relative_path) of a is less than that of b
result_key_lt_score_only(a, b) == a.score > b.score

result_key_lt(a, b) ==
    \/ a.score > b.score
    \/ a.score = b.score /\ str_lt(a.document.relative_path, b.document.relative_path)

RECURSIVE insert_result(_, _)
insert_result(x, s) ==
    IF s = <<>> THEN <<x>>
    ELSE IF result_key_lt(x, Head(s)) THEN <<x>> \o s
    ELSE <<Head(s)>> \o insert_result(x, Tail(s))

\* results.sort(key=lambda r: (-r.score, r.document.relative_path)), a stable sort
RECURSIVE sort_results(_)
sort_results(s) ==
    IF s = <<>> THEN <<>>
    ELSE insert_result(s[Len(s)], sort_results(SubSeq(s, 1, Len(s) - 1)))

\* results[:n]
take_off_by_one(s, n) ==
    IF n + 1 >= 0 THEN SubSeq(s, 1, Min(n + 1, Len(s)))
    ELSE SubSeq(s, 1, Max(Len(s) + n + 1, 0))

take(s, n) ==
    IF n >= 0 THEN SubSeq(s, 1, Min(n, Len(s)))
    ELSE SubSeq(s, 1, Max(Len(s) + n, 0))

\* the result list of search before truncation
ranked(documents, raw_query) ==
    LET q == strip(raw_query) IN
    IF q = <<>> THEN <<>> ELSE sort_results(search_loop(documents, q))

\* SimpleSearchIndex(documents).search(raw_query, n): a blank query gives [] and
\* [][:n] is []
search(documents, raw_query, n) == take(ranked(documents, raw_query), n)

(***************************************************************************)
(* Discovery                                                               *)
(***************************************************************************)
\* _should_skip_dir(dir_path); Path.parts of an absolute path are "/" and its segments
_should_skip_dir(dir_path) ==
    \/ \E i \in 1..Len(dir_path) : dir_path[i] \in EXCLUDE_DIRS
    \/ \E prefix \in EXCLUDE_PREFIXES :
          IF has_is_relative_to
          THEN is_relative_to(resolve(dir_path), prefix)
          ELSE startswith(path_str(resolve(dir_path)), path_str(prefix))

\* _is_allowed_file(path)
_is_allowed_file(path) == lower(suffix(path[Len(path)])) \in INCLUDE_EXTENSIONS

\* whether Path.read_text succeeds on path
can_read(path) ==
    /\ entry(os_follow(path)).kind = "file"
    /\ entry(os_follow(path)).readable

\* the body of the loop over filenames for one file: "skip" (continue), "raise"
\* (relative_to's ValueError leaves discover_documents) or the Document appended
file_outcome(file_path) ==
    IF ~_is_allowed_file(file_path) THEN [kind |-> "skip"]
    ELSE LET absolute_path == resolve(file_path) IN
         IF ~is_under_docs_root(absolute_path) THEN [kind |-> "skip"]
         ELSE IF ~can_read(absolute_path) THEN [kind |-> "skip"]
         ELSE IF ~is_relative_to(absolute_path, DOCS_ROOT) THEN [kind |-> "raise"]
         ELSE [kind |-> "doc",
               doc |-> Document(absolute_path, entry(os_follow(absolute_path)).text)]

\* the loop over filenames from index i on: the Documents appended, and whether
\* the loop was left by an exception
RECURSIVE files_loop(_, _, _)
files_loop(top, filenames, i) ==
    IF i > Len(filenames) THEN [raised |-> FALSE, docs |-> <<>>]
    ELSE LET o == file_outcome(Append(top, filenames[i])) IN
         IF o.kind = "raise" THEN [raised |-> TRUE, docs |-> <<>>]
         ELSE LET rest == files_loop(top, filenames, i + 1) IN
              [raised |-> rest.raised,
               docs |-> (IF o.kind = "doc" THEN <<o.doc>> ELSE <<>>) \o rest.docs]

\* the names os.scandir(top) lists
listdir(top) == {p[Len(p)] : p \in {x \in DOMAIN fs : Len(x) = Len(top) + 1 /\ is_relative_to(x, top)}}

\* os.walk's split of the names of top: an entry that is a directory, or a link
\* to one, is a dirname; every other entry is a filename
walk_dirnames(top) == {n \in listdir(top) : entry(os_follow(Append(top, n))).kind = "dir"}
walk_filenames(top) == listdir(top) \ walk_dirnames(top)

\* every order in which a set of names can be listed
Orders(S) == {f \in [1..Cardinality(S) -> S] : \A i, j \in DOMAIN f : f[i] = f[j] => i = j}

\* dirnames after the pruning loop: the names _should_skip_dir rejects are removed
RECURSIVE prune(_, _)
prune(top, dirnames) ==
    IF dirnames = <<>> THEN <<>>
    ELSE (IF _should_skip_dir(Append(top, Head(dirnames))) THEN <<>> ELSE <<Head(dirnames)>>)
         \o prune(top, Tail(dirnames))

\* the directories of dirnames os.walk goes into: those that are no links
RECURSIVE walk_into(_, _)
walk_into(top, dirnames) ==
    IF dirnames = <<>> THEN <<>>
    ELSE (IF entry(Append(top, Head(dirnames))).kind = "link" THEN <<>>
          ELSE <<Append(top, Head(dirnames))>>)
         \o walk_into(top, Tail(dirnames))

\* what create_app does once discover_documents has returned `documents`
Serve(documents) ==
    /\ docs' = documents
    /\ tree' = build_tree(documents)
    /\ relpath_to_doc' = relpath_map(documents, Len(documents))
    /\ pc' = "serving"

\* create_app() up to the call of os.walk(root)
create_app ==
    /\ pc = "start"
    /\ pc' = "walking"
    /\ pending' = <<DOCS_ROOT>>
    /\ UNCHANGED <<DOCS_ROOT, has_is_relative_to, fs, docs, tree, relpath_to_doc,
                   query, limit, results, viewed, file_name, content, title>>

\* one turn of the loop over os.walk(root): the next directory is listed (a
\* directory that cannot be listed yields nothing), its excluded directories are
\* pruned, its files are loaded, and os.walk goes on with the directories kept that
\* are not links.  After the last turn the list is sorted and create_app goes on.
VisitDir ==
    /\ pc = "walking"
    /\ pending # <<>>
    /\ LET top == Head(pending) IN
       IF entry(top).kind # "dir"
       THEN /\ pending' = Tail(pending)
            /\ IF pending' = <<>> THEN Serve(sort_docs(docs))
               ELSE UNCHANGED <<docs, tree, relpath_to_doc, pc>>
       ELSE \E dirnames \in Orders(walk_dirnames(top)), filenames \in Orders(walk_filenames(top)) :
            LET kept == walk_into(top, prune(top, dirnames))
                loaded == files_loop(top, filenames, 1)
            IN  IF loaded.raised
                THEN /\ pc' = "crashed"
                     /\ pending' = <<>>
                     /\ UNCHANGED <<docs, tree, relpath_to_doc>>
                ELSE /\ pending' = kept \o Tail(pending)
                     /\ IF pending' = <<>> THEN Serve(sort_docs(docs \o loaded.docs))
                        ELSE /\ docs' = docs \o loaded.docs
                             /\ UNCHANGED <<tree, relpath_to_doc, pc>>
    /\ UNCHANGED <<DOCS_ROOT, has_is_relative_to, fs, query, limit, results, viewed,
                   file_name, content, title>>

\* str.strip("/")
RECURSIVE strip_slashes(_)
strip_slashes(s) ==
    IF s # <<>> /\ Head(s) = "/" THEN strip_slashes(Tail(s))
    ELSE IF s # <<>> /\ s[Len(s)] = "/" THEN strip_slashes(SubSeq(s, 1, Len(s) - 1))
    ELSE s

\* the route /view/<relpath>: the Document looked up, or 404
view_file(relpath) ==
    /\ pc = "serving"
    /\ LET normalized == strip_slashes(relpath) IN
       viewed' = IF normalized \in DOMAIN relpath_to_doc
                 THEN [relpath |-> normalized, status |-> 200, doc |-> <<relpath_to_doc[normalized]>>]
                 ELSE [relpath |-> normalized, status |-> 404, doc |-> <<>>]
    /\ UNCHANGED <<DOCS_ROOT, has_is_relative_to, fs, pc, pending, docs, tree,
                   relpath_to_doc, query, limit, results, file_name, content, title>>

\* the route /search?q=...
search_route(q) ==
    /\ pc = "serving"
    /\ query' = strip(q)
    /\ limit' = [given |-> TRUE, value |-> AppLimit]
    /\ results' = IF strip(q) # <<>> THEN search(docs, strip(q), AppLimit) ELSE <<>>
    /\ UNCHANGED <<DOCS_ROOT, has_is_relative_to, fs, pc, pending, docs, tree,
                   relpath_to_doc, viewed, file_name, content, title>>

(***************************************************************************)
(* Values of the variables a specification does not use                    *)
(***************************************************************************)
N_srv == <<"s", "r", "v">>
N_docs == <<"d", "o", "c", "s">>

NoSearch == query = <<>> /\ limit = <<>> /\ results = <<>> /\ viewed = <<>>
NoTitle == file_name = <<>> /\ content = <<>> /\ title = <<>>
NoFilesystem ==
    /\ DOCS_ROOT = <<N_srv, N_docs>>
    /\ has_is_relative_to = TRUE
    /\ fs = <<>>
    /\ pending = <<>>

\* all str over alphabet of length at most n
RECURSIVE Strings(_, _)
Strings(alphabet, n) ==
    IF n = 0 THEN {<<>>}
    ELSE LET shorter == Strings(alphabet, n - 1) IN
         shorter \cup {Append(s, c) : s \in shorter, c \in alphabet}

Range(s) == {s[i] : i \in 1..Len(s)}

(***************************************************************************)
(* Title extraction on its own: _extract_title applied to every content    *)
(* of up to MaxTitleLen characters.                                        *)
(***************************************************************************)
TitleAlphabet == {"#", " ", "\n", "a"}
TitleFileNames == { <<"n", ".", "m", "d">> }

InitTitle ==
    /\ NoFilesystem /\ NoSearch
    /\ pc = "title"
    /\ docs = <<>> /\ tree = <<>> /\ relpath_to_doc = <<>>
    /\ file_name \in TitleFileNames
    /\ content \in Strings(TitleAlphabet, MaxTitleLen)
    /\ title = <<>>

ExtractTitle ==
    /\ pc = "title"
    /\ title = <<>>
    /\ title' = <<_extract_title(file_name, content)>>
    /\ UNCHANGED <<DOCS_ROOT, has_is_relative_to, fs, pc, pending, docs, tree,
                   relpath_to_doc, query, limit, results, viewed, file_name, content>>

NextTitle == ExtractTitle

SpecTitle == InitTitle /\ [][NextTitle]_vars

(***************************************************************************)
(* Search on its own: SimpleSearchIndex.search applied to document lists   *)
(* as discover_documents returns them (sorted by relative_path, the title  *)
(* taken from the content, one content per file).                          *)
(***************************************************************************)
SearchAlphabet == {"a", "A", "b", "\n"}
P_a_md == <<"a", ".", "m", "d">>
P_b_md == <<"b", ".", "m", "d">>
P_B_md == <<"B", ".", "m", "d">>
OtherNames == {P_a_md, P_b_md, P_B_md}
OtherContents == { <<"#", " ", "a", "\n", "a", "b", " ", "a">>, <<"a", "a", "a">> }
Queries == { <<"a">>, <<"A", "a">>, <<" ", "b", " ">>, <<" ">> }
Limits == {-1, 0, 1, 2}

digit(k) ==
    CASE k = 0 -> "0" [] k = 1 -> "1" [] k = 2 -> "2" [] k = 3 -> "3" [] k = 4 -> "4"
      [] k = 5 -> "5" [] k = 6 -> "6" [] k = 7 -> "7" [] k = 8 -> "8" [] k = 9 -> "9"

\* n files 00.md, 01.md, ... all matching "a", with two different scores
BulkDocs(n) ==
    [i \in 1..n |->
        Document(DOCS_ROOT \o << <<digit((i - 1) \div 10), digit((i - 1) % 10)>> \o N_md >>,
                 IF i % 2 = 0 THEN <<"a">> ELSE <<"a", "a">>)]
BulkSizes == {DefaultLimit, DefaultLimit + 1}

\* one content per file: documents of the same path are the same document
OneContentPerFile(documents) ==
    \A i, j \in 1..Len(documents) :
        documents[i].relative_path = documents[j].relative_path => documents[i] = documents[j]

OtherLists ==
    UNION { [1..n -> {Document(DOCS_ROOT \o <<name>>, c) : name \in OtherNames, c \in OtherContents}]
            : n \in 0..MaxOthers }

InitSearch ==
    /\ NoFilesystem /\ NoSearch /\ NoTitle
    /\ pc = "serving"
    /\ \/ \E c \in Strings(SearchAlphabet, MaxContentLen), others \in OtherLists :
            /\ docs = sort_docs(<<Document(DOCS_ROOT \o <<P_b_md>>, c)>> \o others)
            /\ OneContentPerFile(docs)
       \/ \E n \in BulkSizes : docs = BulkDocs(n)
    /\ tree = <<>> /\ relpath_to_doc = <<>>

\* search_index.search(q, n), applied once to the index
IndexSearch(q, n) ==
    /\ pc = "serving"
    /\ limit = <<>>
    /\ query' = q
    /\ limit' = [given |-> TRUE, value |-> n]
    /\ results' = search(docs, q, n)
    /\ UNCHANGED <<DOCS_ROOT, has_is_relative_to, fs, pc, pending, docs, tree,
                   relpath_to_doc, viewed, file_name, content, title>>

\* search_index.search(q), applied once to the index
IndexSearchDefault(q) ==
    /\ pc = "serving"
    /\ limit = <<>>
    /\ query' = q
    /\ limit' = [given |-> FALSE, value |-> DefaultLimit]
    /\ results' = search(docs, q, DefaultLimit)
    /\ UNCHANGED <<DOCS_ROOT, has_is_relative_to, fs, pc, pending, docs, tree,
                   relpath_to_doc, viewed, file_name, content, title>>

NextSearch ==
    \/ \E q \in Queries, n \in Limits : IndexSearch(q, n)
    \/ \E q \in Queries : IndexSearchDefault(q)

SpecSearch == InitSearch /\ [][NextSearch]_vars

(***************************************************************************)
(* The application: a filesystem, startup (discovery, tree, lookup map),   *)
(* then requests.                                                          *)
(***************************************************************************)
N_docs2 == <<"d", "o", "c", "s", "2">>
N_tmp == <<"t", "m", "p">>
N_guide == <<"g", "u", "i", "d", "e">>
N_a_md == <<"a", ".", "m", "d">>
N_B_MD == <<"B", ".", "M", "D">>
N_c_md == <<"c", ".", "m", "d">>
N_d_txt == <<"d", ".", "t", "x", "t">>
N_e_png == <<"e", ".", "p", "n", "g">>
N_l_md == <<"l", ".", "m", "d">>
N_x_md == <<"x", ".", "m", "d">>
N_y_md == <<"y", ".", "m", "d">>
N_gone_md == <<"g", "o", "n", "e", ".", "m", "d">>

Dir == [kind |-> "dir"]
File(text, readable) == [kind |-> "file", text |-> text, readable |-> readable]
Link(target) == [kind |-> "link", target |-> target]

\* the roots tried: /srv/docs, and /venv/docs, below a directory whose name is excluded
Roots == { <<N_srv, N_docs>>, <<N_venv, N_docs>> }
\* the contents tried for a.md
MainContents == { <<"#", " ", "A", "a", "\n", "a">>, <<>> }

\* the entries every filesystem with a root directory holds
FixedEntries(root) ==
    LET up == SubSeq(root, 1, Len(root) - 1) IN
    { <<root, Dir>>,
      <<root \o <<N_guide>>, Dir>>,
      <<root \o <<N_guide, N_B_MD>>, File(<<"a", "a">>, TRUE)>>,
      <<root \o <<N_git>>, Dir>>,
      <<root \o <<N_git, N_c_md>>, File(<<"a">>, TRUE)>>,
      <<root \o <<N_advance>>, Dir>>,
      <<root \o <<N_advance, N_fonts>>, Dir>>,
      <<root \o <<N_advance, N_fonts, N_d_txt>>, File(<<"a">>, TRUE)>>,
      <<root \o <<N_e_png>>, File(<<"a">>, TRUE)>>,
      <<up \o <<N_docs2>>, Dir>>,
      <<up \o <<N_docs2, N_x_md>>, File(<<"a", " ", "b">>, TRUE)>>,
      <<up \o <<N_tmp>>, Dir>>,
      <<up \o <<N_tmp, N_y_md>>, File(<<"a">>, TRUE)>> }

\* what the link l.md of the root may point to: files and a directory inside the
\* root, files outside it (one in a sibling whose name begins with the root's
\* name), and nothing
LinkTargets(root) ==
    LET up == SubSeq(root, 1, Len(root) - 1) IN
    { root \o <<N_a_md>>, root \o <<N_guide, N_B_MD>>, root \o <<N_git, N_c_md>>,
      root \o <<N_advance, N_fonts, N_d_txt>>, root \o <<N_guide>>,
      up \o <<N_docs2, N_x_md>>, up \o <<N_tmp, N_y_md>>, root \o <<N_gone_md>> }

AsFunction(pairs) ==
    [p \in {x[1] : x \in pairs} |-> (CHOOSE x \in pairs : x[1] = p)[2]]

Filesystems(root) ==
    { AsFunction({<<root, File(<<>>, TRUE)>>}), <<>> } \cup
    { AsFunction(FixedEntries(root) \cup a \cup l) :
        a \in {{}} \cup {{<<root \o <<N_a_md>>, File(c, r)>>} : c \in MainContents, r \in BOOLEAN},
        l \in {{}} \cup {{<<root \o <<N_l_md>>, Link(t)>>} : t \in LinkTargets(root)} }

Init ==
    /\ NoSearch /\ NoTitle
    /\ DOCS_ROOT \in Roots
    /\ has_is_relative_to \in BOOLEAN
    /\ fs \in Filesystems(DOCS_ROOT)
    /\ pc = "start"
    /\ pending = <<>>
    /\ docs = <<>> /\ tree = <<>> /\ relpath_to_doc = <<>>

ViewPaths ==
    { <<"a", ".", "m", "d">>,
      <<"/">> \o join(<<"/">>, <<N_guide, N_B_MD>>) \o <<"/">>,
      join(<<"/">>, <<N_git, N_c_md>>),
      <<"l", ".", "m", "d">> }
MainQueries == { <<" ", "a">>, <<" ">> }

Next ==
    \/ create_app
    \/ VisitDir
    \/ \E relpath \in ViewPaths : view_file(relpath)
    \/ \E q \in MainQueries : search_route(q)

Spec == Init /\ [][Next]_vars

(***************************************************************************)
(* Claims about title extraction and search                                *)
(***************************************************************************)
IsHeading(line) == startswith(strip(line), <<"#", " ">>)
IsBlank(line) == strip(line) = <<>>

\* the title the documentation describes: the first level-1 heading wherever it
\* is, else the first non-blank line, else the file name's stem
DescribedTitle(name, text) ==
    LET lines == splitlines(text)
        headings == {i \in 1..Len(lines) : IsHeading(lines[i])}
        nonblank == {i \in 1..Len(lines) : ~IsBlank(lines[i])}
        first(S) == CHOOSE i \in S : \A j \in S : i <= j
    IN  IF headings # {} THEN strip(drop(strip(lines[first(headings)]), 2))
        ELSE IF nonblank # {} THEN strip(lines[first(nonblank)])
        ELSE stem(name)

\* C1 (as claimed): title extraction returns the text of the first "# " heading
\* line wherever it occurs in the file, else the first non-blank line, else the
\* file name without extension.
C1_TitleIsFirstHeading ==
    title # <<>> => title[1] = DescribedTitle(file_name, content)

searched == limit # <<>>

\* the positions of text where the trimmed query occurs, case-insensitively
Occurrences(q, text) ==
    {i \in 1..(Len(text) - Len(q) + 1) : lower(SubSeq(text, i, i + Len(q) - 1)) = lower(q)}

\* the largest number of occurrences of q in text no two of which overlap
OccurrenceCount(q, text) ==
    LET occ == Occurrences(q, text)
        disjoint(S) == \A i, j \in S : i < j => j - i >= Len(q)
        sizes == {Cardinality(S) : S \in {T \in SUBSET occ : disjoint(T)}}
    IN  CHOOSE n \in sizes : \A m \in sizes : m <= n

DescribedScore(d, q) == 5 * OccurrenceCount(q, d.title) + OccurrenceCount(q, d.content)

Times(x, s) == Cardinality({i \in 1..Len(s) : s[i] = x})
ResultDocs == [i \in 1..Len(results) |-> results[i].document]

\* C2: for a non-blank query and a limit that does not truncate, search returns
\* exactly one result per document whose score 5 * (occurrences in the title) +
\* (occurrences in the content) is positive, carrying that score, and none for a
\* document of score 0.
C2_ResultsAreTheDocumentsThatScore ==
    (searched /\ strip(query) # <<>> /\ limit.value >= Len(docs)) =>
        /\ \A i \in 1..Len(results) :
              /\ results[i].document \in Range(docs)
              /\ results[i].score = DescribedScore(results[i].document, strip(query))
        /\ \A d \in Range(docs) :
              Times(d, ResultDocs) = IF DescribedScore(d, strip(query)) > 0 THEN Times(d, docs) ELSE 0

\* a search that scored a document 7 (title once, content twice) and left one out
C2_Witness ==
    /\ searched /\ strip(query) # <<>> /\ limit.value >= Len(docs)
    /\ \E i \in 1..Len(results) :
          /\ results[i].score = 7
          /\ OccurrenceCount(strip(query), results[i].document.title) = 1
          /\ OccurrenceCount(strip(query), results[i].document.content) = 2
    /\ Len(results) < Len(docs)

\* the orderings of a document list the index is tried with: all of them for an
\* enumerated list, the list and its reverse for a list of 50 or more
Reverse(s) == [i \in 1..Len(s) |-> s[Len(s) + 1 - i]]
Orderings(s) ==
    IF Len(s) <= MaxOthers + 1
    THEN {[i \in 1..Len(s) |-> s[f[i]]] : f \in {g \in [1..Len(s) -> 1..Len(s)] :
                                                    \A i, j \in 1..Len(s) : g[i] = g[j] => i = j}}
    ELSE {s, Reverse(s)}

\* C3: the results are in descending order of score, equal scores in ascending
\* order of relative_path, and the index returns the same sequence whatever the
\* order of the documents it was built from.
C3_OrderIsDeterministic ==
    searched =>
        /\ \A i \in 1..(Len(results) - 1) :
              \/ results[i].score > results[i + 1].score
              \/ /\ results[i].score = results[i + 1].score
                 /\ ~str_lt(results[i + 1].document.relative_path,
                            results[i].document.relative_path)
        /\ \A other \in Orderings(docs) : search(other, query, limit.value) = results

\* a search that returned two different files with the same score
C3_Witness ==
    /\ searched
    /\ \E i \in 1..(Len(results) - 1) :
          /\ results[i].score = results[i + 1].score
          /\ str_lt(results[i].document.relative_path, results[i + 1].document.relative_path)

IsLeadingPrefixOfRanking ==
    /\ Len(results) <= Len(ranked(docs, query))
    /\ results = SubSeq(ranked(docs, query), 1, Len(results))

\* C4 (as claimed): for every integer limit search returns at most limit results,
\* the leading prefix of the full ranking; with no limit given, at most 50.
C4_AtMostLimitForEveryInteger ==
    searched =>
        /\ Len(results) <= limit.value
        /\ IsLeadingPrefixOfRanking
        /\ ~limit.given => Len(results) <= DefaultLimit

\* C4 (amended): the result is always a leading prefix of the full ranking; for
\* a limit >= 0 it holds min(limit, number ranked) results, for a limit < 0 all
\* but the last -limit of the ranking; with no limit given, at most 50.
C4_LeadingPrefixOfRanking ==
    searched =>
        LET n == Len(ranked(docs, query)) IN
        /\ IsLeadingPrefixOfRanking
        /\ limit.value >= 0 => Len(results) = Min(limit.value, n)
        /\ limit.value < 0 => Len(results) = Max(n + limit.value, 0)
        /\ ~limit.given => Len(results) <= DefaultLimit

\* a search whose limit cut the ranking short
C4_Witness ==
    /\ searched
    /\ limit.given /\ limit.value > 0
    /\ Len(ranked(docs, query)) > limit.value
    /\ Len(results) = limit.value

(***************************************************************************)
(* Claims about discovery, the tree and startup                            *)
(***************************************************************************)
returned == pc = "serving"

\* C5 (as claimed): no Document returned lies in an excluded directory or under
\* an excluded prefix: no segment of its relative_path is an excluded name and its
\* absolute_path is not at or below an excluded prefix.
C5_NoDocumentIsExcluded ==
    returned =>
        \A d \in Range(docs) :
            /\ \A seg \in Range(split(d.relative_path)) : seg \notin EXCLUDE_DIRS
            /\ \A prefix \in EXCLUDE_PREFIXES : ~is_relative_to(d.absolute_path, prefix)

\* C6: every Document returned has an absolute_path that is a file of the root
\* itself, no link, and carries that file's text: what a link leads to outside
\* the root, a sibling directory named like the root included, is never returned.
C6_DocumentsLieWithinRoot ==
    returned =>
        \A d \in Range(docs) :
            /\ is_relative_to(d.absolute_path, DOCS_ROOT)
            /\ entry(d.absolute_path).kind = "file"
            /\ d.content = entry(d.absolute_path).text

\* documents were returned from a root that holds a link to a file in the sibling
\* directory whose name begins with the root's
C6_Witness ==
    /\ returned
    /\ docs # <<>>
    /\ entry(DOCS_ROOT \o <<N_l_md>>) =
          Link(SubSeq(DOCS_ROOT, 1, Len(DOCS_ROOT) - 1) \o <<N_docs2, N_x_md>>)

\* the files the documentation calls eligible: entries below the root with an
\* allowed extension that lead to a readable file inside the root, in a directory
\* whose path relative to the root has no excluded segment and is under no
\* excluded prefix
EligibleFiles ==
    { p \in DOMAIN fs :
        /\ Len(p) > Len(DOCS_ROOT) /\ is_relative_to(p, DOCS_ROOT)
        /\ entry(DOCS_ROOT).kind = "dir"
        /\ lower(suffix(p[Len(p)])) \in INCLUDE_EXTENSIONS
        /\ entry(os_follow(p)).kind = "file" /\ entry(os_follow(p)).readable
        /\ is_relative_to(os_follow(p), DOCS_ROOT)
        /\ \A i \in (Len(DOCS_ROOT) + 1)..(Len(p) - 1) : p[i] \notin EXCLUDE_DIRS
        /\ \A prefix \in EXCLUDE_PREFIXES : ~is_relative_to(SubSeq(p, 1, Len(p) - 1), prefix) }

\* C7 (as claimed): the number of Documents returned is the number of eligible
\* files under the root, whatever the directories above the root are called.
C7_OneDocumentPerEligibleFile ==
    returned => Len(docs) = Cardinality(EligibleFiles)

\* C8 (as claimed): no two Documents returned have the same relative_path, the
\* lookup map has one entry per Document, and looking up a Document's
\* relative_path gives that Document.
C8_RelativePathIsUnique ==
    returned =>
        /\ \A i, j \in 1..Len(docs) : docs[i].relative_path = docs[j].relative_path => i = j
        /\ Cardinality(DOMAIN relpath_to_doc) = Len(docs)
        /\ \A i \in 1..Len(docs) : relpath_to_doc[docs[i].relative_path] = docs[i]

\* C9: the tree mirrors the relative paths: each Document's segments lead to a
\* file node whose path is its relative_path, through directory nodes only; only
\* directory nodes have children; every file node is a Document's.
C9_TreeMirrorsPaths ==
    returned =>
        /\ \A d \in Range(docs) :
              LET segs == split(d.relative_path) IN
              /\ segs \in DOMAIN tree
              /\ tree[segs].type = "file"
              /\ tree[segs].path = d.relative_path
              /\ \A k \in 0..(Len(segs) - 1) :
                    /\ SubSeq(segs, 1, k) \in DOMAIN tree
                    /\ tree[SubSeq(segs, 1, k)].type = "dir"
        /\ \A k \in DOMAIN tree :
              /\ tree[k].has_children => tree[k].type = "dir"
              /\ tree[k].type = "file" => \E d \in Range(docs) : split(d.relative_path) = k
              /\ k # <<>> => SubSeq(k, 1, Len(k) - 1) \in DOMAIN tree

\* a tree built from a file of the root and a file of a directory below it
C9_Witness ==
    /\ returned
    /\ \E d, e \in Range(docs) : Len(split(d.relative_path)) = 1 /\ Len(split(e.relative_path)) = 2
    /\ Cardinality({k \in DOMAIN tree : tree[k].type = "file"}) = 2
    /\ Cardinality({k \in DOMAIN tree : tree[k].type = "dir"}) = 2

\* C10 (as claimed): with a root that is missing or no directory, startup fails
\* and the application never serves requests.
C10_NoRootNoService ==
    entry(DOCS_ROOT).kind # "dir" => pc # "serving"

====
